---- MODULE Spec2Model ----
(***************************************************************************)
(* Ingestion-and-retrieval pipeline of the RAG backend:                    *)
(*   - document rows and chunk rows (app/models/document.py),              *)
(*   - DocumentService operations (app/services/document_service.py),      *)
(*   - the Celery tasks process_document / chunk_document and the chunker  *)
(*     create_document_chunks (app/tasks/document_processing.py),          *)
(*   - RAGService.optimize_context (app/services/rag_service.py).          *)
(*   - SearchService and the search endpoints                              *)
(*     (app/services/search_service.py, app/api/v1/endpoints/search.py).   *)
(* Strings are sequences of one-character strings; Python indices are      *)
(* 0-based and are kept 0-based in the operators below.                    *)
(***************************************************************************)
EXTENDS Integers, Sequences, FiniteSets, TLC

VARIABLES
  docs,       \* documents table: document id -> row
  chunkRows,  \* document_chunks table, in insertion order
  job,        \* Celery task executions: job id -> local state of the coroutine
  faults,     \* number of store (commit) failures injected so far
  ck,         \* one execution of create_document_chunks, step by step
  opt,        \* one execution of RAGService.optimize_context, step by step
  cmb,        \* one execution of SearchService._combine_search_results
  srch,       \* one search request, from the endpoint or the service down
  del         \* one execution of DocumentService.delete_document

vars == <<docs, chunkRows, job, faults, ck, opt, cmb, srch, del>>

(***************************************************************************)
(* Bounds of the model                                                     *)
(***************************************************************************)
MaxJobs == 2
MaxFaults == 1

\* One document is followed: documents share no state with each other, and
\* every operation below names the one document it acts on.
Docs == {1}
Jobs == 1..MaxJobs

Min(a, b) == IF a <= b THEN a ELSE b
Max(a, b) == IF a >= b THEN a ELSE b

(***************************************************************************)
(* Settings (app/core/config.py)                                           *)
(***************************************************************************)
CHUNK_SIZE == 1000
CHUNK_OVERLAP == 200
MAX_FILE_SIZE == 10485760
ALLOWED_EXTENSIONS == {"pdf", "docx", "txt", "md", "rtf"}

(***************************************************************************)
(* Python string helpers                                                   *)
(***************************************************************************)
IsSpace(c) == c \in {" ", "\n"}

RECURSIVE LStrip(_)
LStrip(s) == IF s # <<>> /\ IsSpace(Head(s)) THEN LStrip(Tail(s)) ELSE s

RECURSIVE RStrip(_)
RStrip(s) ==
  IF s # <<>> /\ IsSpace(s[Len(s)]) THEN RStrip(SubSeq(s, 1, Len(s) - 1)) ELSE s

\* str.strip()
Strip(s) == RStrip(LStrip(s))

\* text.rfind(ch, start, end): highest 0-based index in [start, end) or -1
RFind(text, ch, start, end) ==
  LET hits == {i \in start..(Min(end, Len(text)) - 1) : text[i + 1] = ch}
  IN  IF hits = {} THEN -1 ELSE CHOOSE i \in hits : \A k \in hits : k <= i

\* (mutant) the slice takes one character more
SliceWide(text, start, end) ==
  IF start >= Min(end + 1, Len(text)) THEN <<>>
  ELSE SubSeq(text, start + 1, Min(end + 1, Len(text)))

\* text[start:end] for start >= 0
Slice(text, start, end) ==
  IF start >= Min(end, Len(text)) THEN <<>>
  ELSE SubSeq(text, start + 1, Min(end, Len(text)))

(***************************************************************************)
(* create_document_chunks (document_processing.py:207-242)                 *)
(***************************************************************************)
\* (mutant) the next window starts one character after the end of this one
ChunkStepGap(text, size, overlap, start) ==
  LET end0  == start + size
      bp    == Max(RFind(text, " ", start, end0), RFind(text, "\n", start, end0))
      end   == IF end0 < Len(text) /\ bp > start THEN bp + 1 ELSE end0
  IN  [end   |-> end,
       chunk |-> Strip(Slice(text, start, end)),
       next  |-> end + 1]

\* One iteration of the while loop (lines 217-236) from position start.
ChunkStep(text, size, overlap, start) ==
  LET end0  == start + size
      bp    == Max(RFind(text, " ", start, end0), RFind(text, "\n", start, end0))
      end   == IF end0 < Len(text) /\ bp > start THEN bp + 1 ELSE end0
      chunk == Strip(Slice(text, start, end))
      nxt0  == end - overlap
  IN  [end   |-> end,
       chunk |-> chunk,
       next  |-> IF nxt0 <= 0 THEN end ELSE nxt0]

\* The while loop run to its end.  The loop state is the position start alone,
\* so the loop does not terminate exactly when a position repeats; that
\* outcome is reported as hangs = TRUE.
RECURSIVE ChunkLoop(_, _, _, _, _, _)
ChunkLoop(text, size, overlap, start, chunks, seen) ==
  IF ~(start < Len(text)) THEN [hangs |-> FALSE, chunks |-> chunks]
  ELSE IF start \in seen THEN [hangs |-> TRUE, chunks |-> <<>>]
  ELSE LET s == ChunkStep(text, size, overlap, start)
       IN  ChunkLoop(text, size, overlap, s.next,
                     IF s.chunk # <<>> THEN Append(chunks, s.chunk) ELSE chunks,
                     seen \cup {start})

create_document_chunks(text, size, overlap) ==
  IF text = <<>> THEN [hangs |-> FALSE, chunks |-> <<>>]
  ELSE ChunkLoop(text, size, overlap, 0, <<>>, {})

(***************************************************************************)
(* Documents and their files                                               *)
(***************************************************************************)
\* Column attributes, relationships and properties declared by the ORM class
\* Document and its Base.  Reading any other attribute of a Document instance
\* raises AttributeError.
DocumentAttributes ==
  {"id", "created_at", "updated_at", "domain_id", "filename", "file_path",
   "file_size", "file_type", "status", "document_metadata", "domain", "chunks",
   "chunk_count", "is_processed", "is_failed", "is_pending", "file_size_mb",
   "metadata"}

\* (mutant) every attribute read succeeds
HasAttrAny(name) == TRUE

HasAttr(name) == name \in DocumentAttributes

NoDoc == [exists |-> FALSE, status |-> "none", file_type |-> "none",
          file |-> "none", text |-> <<>>]

\* Values a caller can send as a status (any string is accepted).
StatusInputs == {"pending", "processing", "completed", "failed", "archived"}

\* Uploads offered to create_document: declared type, state of the file on
\* disk when a task opens it, and its content.
Uploads ==
  { [file_type |-> "txt", file |-> "ok",         text |-> <<"a", " ", "b">>],
    [file_type |-> "txt", file |-> "ok",         text |-> <<>>],
    [file_type |-> "txt", file |-> "missing",    text |-> <<"a">>],
    [file_type |-> "txt", file |-> "unreadable", text |-> <<"a">>],
    [file_type |-> "pdf", file |-> "ok",         text |-> <<"a">>],
    [file_type |-> "md",  file |-> "ok",         text |-> <<"a">>],
    [file_type |-> "exe", file |-> "ok",         text |-> <<"a">>] }

\* extract_text_from_pdf / _docx return a fixed non-empty placeholder string.
Placeholder == <<"P", "D", "F">>

\* extract_text_from_txt (173-180): file content, "" on a read error.
extract_text_from_txt(d) == IF d.file = "unreadable" THEN <<>> ELSE d.text

\* extract_text_from_document (147-170).  None and "" are both falsy to the
\* callers and are both represented by the empty sequence.
extract_text_from_document(d) ==
  IF d.file = "missing" THEN <<>>
  ELSE IF d.file_type = "txt" THEN extract_text_from_txt(d)
  ELSE IF d.file_type \in {"pdf", "docx", "doc"} THEN Placeholder
  ELSE <<>>

(***************************************************************************)
(* Store                                                                   *)
(***************************************************************************)
\* Outcomes of a commit: TRUE = committed, FALSE = the commit raised and the
\* session was rolled back.
StoreOutcomes == IF faults < MaxFaults THEN {TRUE, FALSE} ELSE {TRUE}

Charge(ok) == IF ok THEN faults ELSE faults + 1

\* Rows of document d, ordered as inserted.  A row carries the columns
\* document_id, chunk_index, content and embedding (whether it is set); by
\* names the execution that inserted it and is read by the properties only.
RowsOf(d) == SelectSeq(chunkRows, LAMBDA r : r.doc = d)

\* (mutant) the status update is lost
SetStatusLost(d, s) == docs

\* DocumentService.update_document_status (216-233) on the table
SetStatus(d, s) ==
  IF docs[d].exists THEN [docs EXCEPT ![d].status = s] ELSE docs

(***************************************************************************)
(* Task executions                                                         *)
(***************************************************************************)
\* Optional[int] argument of a task: <<>> is None, <<n>> is n.
OrDefault(arg, default) == IF arg = <<>> \/ arg[1] = 0 THEN default ELSE arg[1]

IdleJob ==
  [kind |-> "none", doc |-> 0, pc |-> "idle", size |-> 0, overlap |-> 0,
   chunks |-> <<>>, i |-> 0,
   \* history of the execution, read by the properties only
   marked |-> FALSE, extracted |-> "none", written |-> 0, fault |-> "none",
   prior |-> FALSE, solo |-> FALSE, startRows |-> <<>>,
   \* the arguments as the caller gave them, and self.request.retries: the
   \* number of times the task has been handed back to the queue by self.retry
   given |-> <<>>, retries |-> 0]

\* The first refused commit of an execution is remembered by its place.
Refused(old, ok, place) == IF ok \/ old # "none" THEN old ELSE place

Running(r) == r.pc \notin {"idle", "done", "raised", "crashed"}

Finished(r) == r.pc \in {"done", "raised"}

\* A new execution starts: every execution already running is no longer alone.
Launch(j, rec) ==
  [k \in Jobs |-> IF k = j THEN rec
                  ELSE IF Running(job[k]) THEN [job[k] EXCEPT !.solo = FALSE]
                  ELSE job[k]]

IngestUnchanged == UNCHANGED <<ck, opt, cmb, srch, del>>

(***************************************************************************)
(* DocumentService operations reached through the HTTP API                 *)
(***************************************************************************)
\* DocumentService.create_document (28-65): validation, then one commit.
create_document(d, up, domainExists, file_size) ==
  /\ ~docs[d].exists
  /\ LET accepted == /\ domainExists
                     /\ file_size <= MAX_FILE_SIZE
                     /\ up.file_type \in ALLOWED_EXTENSIONS
     IN  \E ok \in (IF accepted THEN StoreOutcomes ELSE {TRUE}) :
           /\ docs' = IF accepted /\ ok
                      THEN [docs EXCEPT ![d] =
                              [exists |-> TRUE, status |-> "pending",
                               file_type |-> up.file_type, file |-> up.file,
                               text |-> up.text]]
                      ELSE docs
           /\ faults' = Charge(ok)
  /\ UNCHANGED <<chunkRows, job>>
  /\ IngestUnchanged

\* PATCH /documents/{id}/status -> DocumentService.update_document_status
\* (216-233): the status string is stored as received.
update_document_status(d, s) ==
  /\ \E ok \in (IF docs[d].exists THEN StoreOutcomes ELSE {TRUE}) :
       /\ docs' = IF ok THEN SetStatus(d, s) ELSE docs
       /\ faults' = Charge(ok)
  /\ UNCHANGED <<chunkRows, job>>
  /\ IngestUnchanged

\* PUT /documents/{id} -> DocumentService.update_document (169-190): every
\* field set in the request, status included, is copied onto the row.
update_document(d, s) ==
  /\ \E ok \in (IF docs[d].exists THEN StoreOutcomes ELSE {TRUE}) :
       /\ docs' = IF ok /\ s # "unset" THEN SetStatus(d, s) ELSE docs
       /\ faults' = Charge(ok)
  /\ UNCHANGED <<chunkRows, job>>
  /\ IngestUnchanged

(***************************************************************************)
(* process_document (document_processing.py:21-82)                         *)
(***************************************************************************)
\* Executions take the job slots in order (the slots are interchangeable).
NextSlot(j) == job[j].pc = "idle" /\ \A k \in Jobs : k < j => job[k].pc # "idle"

\* A worker picks the task up.
process_document_start(j, d) ==
  /\ NextSlot(j)
  /\ job' = Launch(j, [IdleJob EXCEPT
                !.kind = "process", !.doc = d, !.pc = "get",
                !.prior = \E k \in Jobs : /\ job[k].kind = "process"
                                          /\ job[k].doc = d
                                          /\ Finished(job[k])
                                          /\ job[k].extracted # "none",
                !.solo = \A k \in Jobs : ~Running(job[k]),
                !.startRows = RowsOf(d)])
  /\ UNCHANGED <<docs, chunkRows, faults>>
  /\ IngestUnchanged

\* lines 36-40: get_document, return when it is not found
process_document_get(j) ==
  /\ job[j].kind = "process" /\ job[j].pc = "get"
  /\ job' = [job EXCEPT ![j].pc = IF docs[job[j].doc].exists THEN "mark" ELSE "done"]
  /\ UNCHANGED <<docs, chunkRows, faults>>
  /\ IngestUnchanged

\* line 43: update_document_status(doc_id, "processing"), outside the try block
process_document_mark(j) ==
  /\ job[j].kind = "process" /\ job[j].pc = "mark"
  /\ \E ok \in StoreOutcomes :
       /\ docs' = IF ok THEN SetStatus(job[j].doc, "processing") ELSE docs
       /\ job' = [job EXCEPT ![j].pc = IF ok THEN "extract" ELSE "raised",
                             ![j].marked = ok /\ docs[job[j].doc].exists,
                             ![j].fault = Refused(@, ok, "mark")]
       /\ faults' = Charge(ok)
  /\ UNCHANGED chunkRows
  /\ IngestUnchanged

\* lines 47-55: extract the text; nothing extracted leads to line 50; otherwise
\* line 55 reads document.chunk_size before it calls the chunker.
process_document_extract(j) ==
  /\ job[j].kind = "process" /\ job[j].pc = "extract"
  /\ LET text == extract_text_from_document(docs[job[j].doc])
         r    == create_document_chunks(text, CHUNK_SIZE, 0)
     IN  job' = IF text = <<>>
                THEN [job EXCEPT ![j].pc = "fail_empty", ![j].extracted = "nothing"]
                ELSE IF ~HasAttr("chunk_size")
                THEN [job EXCEPT ![j].pc = "handler", ![j].extracted = "text"]
                ELSE IF r.hangs
                THEN [job EXCEPT ![j].pc = "hung", ![j].extracted = "text"]
                ELSE [job EXCEPT ![j].pc = "save", ![j].extracted = "text",
                                 ![j].size = CHUNK_SIZE, ![j].chunks = r.chunks]
  /\ UNCHANGED <<docs, chunkRows, faults>>
  /\ IngestUnchanged

\* lines 50-52: update_document_status(doc_id, "failed") and return
process_document_fail_empty(j) ==
  /\ job[j].kind = "process" /\ job[j].pc = "fail_empty"
  /\ \E ok \in StoreOutcomes :
       /\ docs' = IF ok THEN SetStatus(job[j].doc, "failed") ELSE docs
       /\ job' = [job EXCEPT ![j].pc = IF ok THEN "done" ELSE "handler",
                             ![j].fault = Refused(@, ok, "status")]
       /\ faults' = Charge(ok)
  /\ UNCHANGED chunkRows
  /\ IngestUnchanged

\* One iteration of the saving loop (58-64 in process_document, 128-134 in
\* chunk_document): DocumentService.create_document_chunk (249-275) adds the
\* row and commits it.  A failed commit raises: process_document catches it
\* at line 71, chunk_document lets it leave the task.
create_document_chunk(j) ==
  /\ job[j].pc = "save" /\ job[j].i < Len(job[j].chunks)
  /\ \E ok \in StoreOutcomes :
       /\ chunkRows' = IF ok
                       THEN Append(chunkRows,
                                   [doc |-> job[j].doc,
                                    chunk_index |-> job[j].i,
                                    content |-> job[j].chunks[job[j].i + 1],
                                    embedding |-> FALSE,
                                    by |-> j])
                       ELSE chunkRows
       /\ job' = IF ok
                 THEN [job EXCEPT ![j].i = @ + 1, ![j].written = @ + 1]
                 ELSE [job EXCEPT ![j].fault = Refused(@, ok, "chunk"),
                                  ![j].pc = IF job[j].kind = "process"
                                            THEN "handler" ELSE "raised"]
       /\ faults' = Charge(ok)
  /\ UNCHANGED docs
  /\ IngestUnchanged

\* After the saving loop: process_document sets the status to completed
\* (line 67); chunk_document logs and returns (line 136).
saving_done(j) ==
  /\ job[j].pc = "save" /\ job[j].i = Len(job[j].chunks)
  /\ \E ok \in (IF job[j].kind = "process" THEN StoreOutcomes ELSE {TRUE}) :
       /\ docs' = IF job[j].kind = "process" /\ ok
                  THEN SetStatus(job[j].doc, "completed") ELSE docs
       /\ job' = [job EXCEPT ![j].pc = IF ok THEN "done" ELSE "handler",
                             ![j].fault = Refused(@, ok, "status")]
       /\ faults' = Charge(ok)
  /\ UNCHANGED chunkRows
  /\ IngestUnchanged

\* lines 71-74: the except block sets the status to failed and re-raises; a
\* failure of that update leaves the block with the new exception.
process_document_handler(j) ==
  /\ job[j].kind = "process" /\ job[j].pc = "handler"
  /\ \E ok \in StoreOutcomes :
       /\ docs' = IF ok THEN SetStatus(job[j].doc, "failed") ELSE docs
       /\ job' = [job EXCEPT ![j].pc = "raised",
                             ![j].fault = Refused(@, ok, "status")]
       /\ faults' = Charge(ok)
  /\ UNCHANGED chunkRows
  /\ IngestUnchanged

(***************************************************************************)
(* chunk_document (document_processing.py:85-144)                          *)
(***************************************************************************)
\* lines 93-94: falsy arguments are replaced by the settings
chunk_document_start(j, d, chunk_size, overlap) ==
  /\ NextSlot(j)
  /\ job' = Launch(j, [IdleJob EXCEPT
                !.kind = "chunk", !.doc = d, !.pc = "cget",
                !.size = OrDefault(chunk_size, CHUNK_SIZE),
                !.overlap = OrDefault(overlap, CHUNK_OVERLAP),
                !.given = <<chunk_size, overlap>>,
                !.solo = \A k \in Jobs : ~Running(job[k]),
                !.startRows = RowsOf(d)])
  /\ UNCHANGED <<docs, chunkRows, faults>>
  /\ IngestUnchanged

\* lines 104-108
chunk_document_get(j) ==
  /\ job[j].kind = "chunk" /\ job[j].pc = "cget"
  /\ job' = [job EXCEPT ![j].pc = IF docs[job[j].doc].exists THEN "cexisting" ELSE "done"]
  /\ UNCHANGED <<docs, chunkRows, faults>>
  /\ IngestUnchanged

\* lines 111-115: return when the document already has chunks
chunk_document_existing(j) ==
  /\ job[j].kind = "chunk" /\ job[j].pc = "cexisting"
  /\ job' = [job EXCEPT ![j].pc = IF RowsOf(job[j].doc) # <<>> THEN "done" ELSE "cextract"]
  /\ UNCHANGED <<docs, chunkRows, faults>>
  /\ IngestUnchanged

\* lines 118-125
chunk_document_extract(j) ==
  /\ job[j].kind = "chunk" /\ job[j].pc = "cextract"
  /\ LET text == extract_text_from_document(docs[job[j].doc])
         r    == create_document_chunks(text, job[j].size, job[j].overlap)
     IN  job' = IF text = <<>>
                THEN [job EXCEPT ![j].pc = "done", ![j].extracted = "nothing"]
                ELSE IF r.hangs
                THEN [job EXCEPT ![j].pc = "hung", ![j].extracted = "text"]
                ELSE [job EXCEPT ![j].pc = "save", ![j].extracted = "text",
                                 ![j].chunks = r.chunks]
  /\ UNCHANGED <<docs, chunkRows, faults>>
  /\ IngestUnchanged

(***************************************************************************)
(* Specification of the ingestion pipeline                                 *)
(***************************************************************************)
\* windows lists the window [start, end) of every chunk appended; it is read
\* by the properties only.
CkIdle == [pc |-> "off", text |-> <<>>, size |-> 0, overlap |-> 0,
           start |-> 0, chunks |-> <<>>, steps |-> 0, windows |-> <<>>]

OptIdle == [pc |-> "off", context |-> <<>>, max |-> 0, sorted |-> <<>>,
            k |-> 0, total |-> 0, out |-> <<>>]

CmbIdle == [pc |-> "off", semantic_results |-> <<>>, vector_results |-> <<>>,
            semantic_weight |-> 0, vector_weight |-> 0, limit |-> 0,
            k |-> 0, combined_dict |-> <<>>, out |-> <<>>]

SrchIdle == [pc |-> "off", kind |-> "none", via |-> "none", domain_id |-> 0,
             limit |-> 0, semantic_weight |-> 0, vector_weight |-> 0,
             status |-> <<>>, matches |-> {},
             semantic |-> <<>>, vector |-> <<>>, results |-> <<>>,
             outcome |-> "none", error |-> "none",
             \* history of the request, read by the properties only
             queries |-> 0, queryOk |-> FALSE, logFailed |-> FALSE]

DelIdle == [pc |-> "off", doc |-> 0, disk |-> "none", outcome |-> "none",
            startRows |-> <<>>, startDisk |-> "none"]

\* Arguments offered to chunk_document
ChunkSizeArgs == {<<>>, <<2>>}
OverlapArgs == {<<>>, <<0>>, <<1>>}

Init ==
  /\ docs = [d \in Docs |-> NoDoc]
  /\ chunkRows = <<>>
  /\ job = [j \in Jobs |-> IdleJob]
  /\ faults = 0
  /\ ck = CkIdle
  /\ opt = OptIdle
  /\ cmb = CmbIdle
  /\ srch = SrchIdle
  /\ del = DelIdle

Next ==
  \/ \E d \in Docs, up \in Uploads, de \in BOOLEAN, fs \in {1, MAX_FILE_SIZE + 1} :
       create_document(d, up, de, fs)
  \/ \E d \in Docs, s \in StatusInputs : update_document_status(d, s)
  \/ \E d \in Docs, s \in StatusInputs \cup {"unset"} : update_document(d, s)
  \/ \E j \in Jobs, d \in Docs : process_document_start(j, d)
  \/ \E j \in Jobs : process_document_get(j)
  \/ \E j \in Jobs : process_document_mark(j)
  \/ \E j \in Jobs : process_document_extract(j)
  \/ \E j \in Jobs : process_document_fail_empty(j)
  \/ \E j \in Jobs : process_document_handler(j)
  \/ \E j \in Jobs, d \in Docs, cs \in ChunkSizeArgs, ov \in OverlapArgs :
       chunk_document_start(j, d, cs, ov)
  \/ \E j \in Jobs : chunk_document_get(j)
  \/ \E j \in Jobs : chunk_document_existing(j)
  \/ \E j \in Jobs : chunk_document_extract(j)
  \/ \E j \in Jobs : create_document_chunk(j)
  \/ \E j \in Jobs : saving_done(j)

Spec == Init /\ [][Next]_vars

(***************************************************************************)
(* process_document on a worker that can die                               *)
(***************************************************************************)
\* The worker process is killed while it runs a task (hard time limit,
\* memory limit per child, loss of the host): the task takes no further
\* step.  The message was acknowledged when the task started (acks_late is
\* not set), so the broker does not deliver it again.
worker_crash(j) ==
  /\ Running(job[j])
  /\ job' = [job EXCEPT ![j].pc = "crashed"]
  /\ UNCHANGED <<docs, chunkRows, faults>>
  /\ IngestUnchanged

\* A step of the execution in slot j
WorkerStep(j) ==
  \/ process_document_get(j)
  \/ process_document_mark(j)
  \/ process_document_extract(j)
  \/ process_document_fail_empty(j)
  \/ process_document_handler(j)

\* Documents as create_document leaves them
InitLease ==
  /\ \E up \in {u \in Uploads : u.file_type \in ALLOWED_EXTENSIONS} :
       docs = [d \in Docs |->
                 [exists |-> TRUE, status |-> "pending", file_type |-> up.file_type,
                  file |-> up.file, text |-> up.text]]
  /\ chunkRows = <<>>
  /\ job = [j \in Jobs |-> IdleJob]
  /\ faults = 0
  /\ ck = CkIdle
  /\ opt = OptIdle
  /\ cmb = CmbIdle
  /\ srch = SrchIdle
  /\ del = DelIdle

NextLease ==
  \/ \E j \in Jobs, d \in Docs : process_document_start(j, d)
  \/ \E j \in Jobs : process_document_get(j)
  \/ \E j \in Jobs : process_document_mark(j)
  \/ \E j \in Jobs : process_document_extract(j)
  \/ \E j \in Jobs : process_document_fail_empty(j)
  \/ \E j \in Jobs : process_document_handler(j)
  \/ \E j \in Jobs : worker_crash(j)

\* A worker that is alive runs its task on; nothing obliges anyone to send
\* a new task.
SpecLease ==
  InitLease /\ [][NextLease]_vars /\ \A j \in Jobs : WF_vars(WorkerStep(j))

(***************************************************************************)
(* create_document_chunks executed step by step                            *)
(***************************************************************************)
MaxTextLen == 5
MaxChunkSize == 3

Alphabet == {"a", " ", "\n"}
Texts == UNION {[1..n -> Alphabet] : n \in 0..MaxTextLen}

\* A diverging loop appends without end; the model stops counting here.
MaxIter == MaxTextLen + 2

IngestIdle ==
  /\ docs = [d \in Docs |-> NoDoc]
  /\ chunkRows = <<>>
  /\ job = [j \in Jobs |-> IdleJob]
  /\ faults = 0

InitChunker ==
  /\ IngestIdle
  /\ opt = OptIdle
  /\ cmb = CmbIdle
  /\ srch = SrchIdle
  /\ del = DelIdle
  /\ \E t \in Texts, size \in 1..MaxChunkSize, ov \in 0..MaxChunkSize :
       ck = [pc |-> "call", text |-> t, size |-> size, overlap |-> ov,
             start |-> 0, chunks |-> <<>>, steps |-> 0, windows |-> <<>>]

\* lines 210-214
create_document_chunks_call ==
  /\ ck.pc = "call"
  /\ ck' = [ck EXCEPT !.pc = IF ck.text = <<>> THEN "done" ELSE "loop"]
  /\ UNCHANGED <<docs, chunkRows, job, faults, opt, cmb, srch, del>>

\* lines 216-236: one iteration of the while loop
create_document_chunks_iterate ==
  /\ ck.pc = "loop" /\ ck.start < Len(ck.text) /\ ck.steps < MaxIter
  /\ LET s == ChunkStep(ck.text, ck.size, ck.overlap, ck.start)
     IN  ck' = [ck EXCEPT !.start = s.next,
                          !.chunks = IF s.chunk # <<>> THEN Append(@, s.chunk) ELSE @,
                          !.windows = IF s.chunk # <<>>
                                      THEN Append(@, <<ck.start, s.end>>) ELSE @,
                          !.steps = @ + 1]
  /\ UNCHANGED <<docs, chunkRows, job, faults, opt, cmb, srch, del>>

\* line 238
create_document_chunks_return ==
  /\ ck.pc = "loop" /\ ~(ck.start < Len(ck.text))
  /\ ck' = [ck EXCEPT !.pc = "done"]
  /\ UNCHANGED <<docs, chunkRows, job, faults, opt, cmb, srch, del>>

NextChunker ==
  \/ create_document_chunks_call
  \/ create_document_chunks_iterate
  \/ create_document_chunks_return

SpecChunker == InitChunker /\ [][NextChunker]_vars

(***************************************************************************)
(* RAGService.optimize_context (rag_service.py:281-319)                    *)
(***************************************************************************)
MaxResults == 3

\* Lengths of the contents offered, budgets, and scores (in tenths)
Lengths == {60, 450, 1500}
Budgets == {100, 500, 1000}
Scores == {3, 5, 9}

\* Length of the marker "..." appended to a truncated content (line 311)
EllipsisLen == 3
\* Smallest remaining budget that is not worth a truncated item (line 309)
MinRemaining == 100

\* A content is a prefix of n characters of result src's text, followed by the
\* marker when ell is TRUE.
ContentLen(c) == c.n + (IF c.ell THEN EllipsisLen ELSE 0)

\* result.content[:remaining] + "..."
Truncate(c, remaining) ==
  [c EXCEPT !.n = Max(0, Min(c.n, remaining)), !.ell = TRUE]

\* (mutant) items of equal score change places
RECURSIVE InsertDescUnstable(_, _)
InsertDescUnstable(sorted, r) ==
  IF sorted = <<>> THEN <<r>>
  ELSE IF Head(sorted).score > r.score
       THEN <<Head(sorted)>> \o InsertDescUnstable(Tail(sorted), r)
       ELSE <<r>> \o sorted

\* sorted(context, key=similarity_score, reverse=True): stable, descending
RECURSIVE InsertDesc(_, _)
InsertDesc(sorted, r) ==
  IF sorted = <<>> THEN <<r>>
  ELSE IF Head(sorted).score >= r.score
       THEN <<Head(sorted)>> \o InsertDesc(Tail(sorted), r)
       ELSE <<r>> \o sorted

RECURSIVE SortDesc(_)
SortDesc(context) ==
  IF context = <<>> THEN <<>>
  ELSE InsertDesc(SortDesc(SubSeq(context, 1, Len(context) - 1)),
                  context[Len(context)])

RECURSIVE SumLen(_)
SumLen(results) ==
  IF results = <<>> THEN 0
  ELSE ContentLen(Head(results).content) + SumLen(Tail(results))

ResultsOf(n) ==
  { [i \in 1..n |-> [id |-> i, score |-> sc[i],
                     content |-> [src |-> i, n |-> ln[i], ell |-> FALSE]]] :
      sc \in [1..n -> Scores], ln \in [1..n -> Lengths] }

InitOptimize ==
  /\ IngestIdle
  /\ ck = CkIdle
  /\ cmb = CmbIdle
  /\ srch = SrchIdle
  /\ del = DelIdle
  /\ \E n \in 0..MaxResults, m \in Budgets :
       \E c \in ResultsOf(n) :
         opt = [pc |-> "call", context |-> c, max |-> m, sorted |-> <<>>,
                k |-> 0, total |-> 0, out |-> <<>>]

\* lines 289-297
optimize_context_call ==
  /\ opt.pc = "call"
  /\ opt' = IF opt.context = <<>>
            THEN [opt EXCEPT !.pc = "done"]
            ELSE [opt EXCEPT !.pc = "loop", !.sorted = SortDesc(opt.context)]
  /\ UNCHANGED <<docs, chunkRows, job, faults, ck, cmb, srch, del>>

\* lines 299-313: one iteration of the for loop
optimize_context_iterate ==
  /\ opt.pc = "loop" /\ opt.k < Len(opt.sorted)
  /\ LET result    == opt.sorted[opt.k + 1]
         len       == ContentLen(result.content)
         remaining == opt.max - opt.total
     IN  opt' = IF opt.total + len <= opt.max
                THEN [opt EXCEPT !.out = Append(@, result),
                                 !.total = @ + len,
                                 !.k = @ + 1]
                ELSE IF remaining > MinRemaining
                THEN [opt EXCEPT !.out = Append(@, [result EXCEPT
                                        !.content = Truncate(result.content, remaining)]),
                                 !.pc = "done"]
                ELSE [opt EXCEPT !.pc = "done"]
  /\ UNCHANGED <<docs, chunkRows, job, faults, ck, cmb, srch, del>>

\* line 315
optimize_context_return ==
  /\ opt.pc = "loop" /\ opt.k = Len(opt.sorted)
  /\ opt' = [opt EXCEPT !.pc = "done"]
  /\ UNCHANGED <<docs, chunkRows, job, faults, ck, cmb, srch, del>>

NextOptimize ==
  \/ optimize_context_call
  \/ optimize_context_iterate
  \/ optimize_context_return

SpecOptimize == InitOptimize /\ [][NextOptimize]_vars

(***************************************************************************)
(* SearchService._combine_search_results (search_service.py:348-391)       *)
(***************************************************************************)
MaxListLen == 2

\* Chunk ids, similarity scores (in tenths), weights (in thousandths; the
\* pairs are <<semantic_weight, vector_weight>>) and limits offered
ChunkIds == {1, 2, 3}
SimilarityScores == {5, 10}
WeightPairs ==
  {<<700, 300>>, <<500, 500>>, <<700, 305>>, <<0, 1000>>, <<900, 900>>}
Limits == {1, 2, 10}

\* A result list is the outcome of one query over the chunks: it holds a
\* chunk at most once.
ResultLists ==
  UNION {{l \in [1..n -> [chunk_id : ChunkIds,
                          similarity_score : SimilarityScores]] :
             \A a, b \in 1..n : a # b => l[a].chunk_id # l[b].chunk_id} :
         n \in 0..MaxListLen}

\* combined_dict is a Python dict: its items are kept in insertion order and
\* an assignment to an existing key keeps the key's position.
KeyIndex(dict, key) ==
  IF \E i \in 1..Len(dict) : dict[i].key = key
  THEN CHOOSE i \in 1..Len(dict) : dict[i].key = key
  ELSE 0

DictSet(dict, key, entry) ==
  IF KeyIndex(dict, key) = 0 THEN Append(dict, entry)
  ELSE [dict EXCEPT ![KeyIndex(dict, key)] = entry]

\* lines 361-367: one iteration of the loop over semantic_results
AddSemantic(dict, result, semantic_weight) ==
  DictSet(dict, result.chunk_id,
          [key            |-> result.chunk_id,
           result         |-> result,
           semantic_score |-> result.similarity_score * semantic_weight,
           vector_score   |-> 0,
           combined_score |-> result.similarity_score * semantic_weight])

\* (mutant) a chunk found by both searches keeps its semantic score alone
AddVectorNoSum(dict, result, vector_weight) ==
  IF KeyIndex(dict, result.chunk_id) # 0
  THEN [dict EXCEPT ![KeyIndex(dict, result.chunk_id)].vector_score =
                       result.similarity_score * vector_weight]
  ELSE Append(dict,
              [key            |-> result.chunk_id,
               result         |-> result,
               semantic_score |-> 0,
               vector_score   |-> result.similarity_score * vector_weight,
               combined_score |-> result.similarity_score * vector_weight])

\* lines 370-382: one iteration of the loop over vector_results
AddVector(dict, result, vector_weight) ==
  IF KeyIndex(dict, result.chunk_id) # 0
  THEN [dict EXCEPT ![KeyIndex(dict, result.chunk_id)].vector_score =
                       result.similarity_score * vector_weight,
                    ![KeyIndex(dict, result.chunk_id)].combined_score =
                       @ + result.similarity_score * vector_weight]
  ELSE Append(dict,
              [key            |-> result.chunk_id,
               result         |-> result,
               semantic_score |-> 0,
               vector_score   |-> result.similarity_score * vector_weight,
               combined_score |-> result.similarity_score * vector_weight])

\* sorted(combined_dict.values(), key=combined_score, reverse=True): stable,
\* items of equal score keep the order of the dict (lines 385-389)
RECURSIVE InsertByCombinedScore(_, _)
InsertByCombinedScore(sorted, item) ==
  IF sorted = <<>> THEN <<item>>
  ELSE IF Head(sorted).combined_score >= item.combined_score
       THEN <<Head(sorted)>> \o InsertByCombinedScore(Tail(sorted), item)
       ELSE <<item>> \o sorted

RECURSIVE SortByCombinedScore(_)
SortByCombinedScore(items) ==
  IF items = <<>> THEN <<>>
  ELSE InsertByCombinedScore(SortByCombinedScore(SubSeq(items, 1, Len(items) - 1)),
                             items[Len(items)])

\* line 391: [item["result"] for item in sorted_results[:limit]]
TopResults(sorted, limit) ==
  [i \in 1..Min(limit, Len(sorted)) |-> sorted[i].result]

RECURSIVE FoldSemantic(_, _, _)
FoldSemantic(dict, results, semantic_weight) ==
  IF results = <<>> THEN dict
  ELSE FoldSemantic(AddSemantic(dict, Head(results), semantic_weight),
                    Tail(results), semantic_weight)

RECURSIVE FoldVector(_, _, _)
FoldVector(dict, results, vector_weight) ==
  IF results = <<>> THEN dict
  ELSE FoldVector(AddVector(dict, Head(results), vector_weight),
                  Tail(results), vector_weight)

\* The method as a whole
combine_search_results(semantic_results, vector_results, semantic_weight, vector_weight, limit) ==
  TopResults(
    SortByCombinedScore(
      FoldVector(FoldSemantic(<<>>, semantic_results, semantic_weight),
                 vector_results, vector_weight)),
    limit)

IngestAndTextIdle ==
  /\ IngestIdle
  /\ ck = CkIdle
  /\ opt = OptIdle

InitCombine ==
  /\ IngestAndTextIdle
  /\ srch = SrchIdle
  /\ del = DelIdle
  /\ \E sem \in ResultLists, vec \in ResultLists, w \in WeightPairs, lim \in Limits :
       cmb = [pc |-> "semantic", semantic_results |-> sem, vector_results |-> vec,
              semantic_weight |-> w[1], vector_weight |-> w[2], limit |-> lim,
              k |-> 0, combined_dict |-> <<>>, out |-> <<>>]

\* lines 361-367
combine_add_semantic ==
  /\ cmb.pc = "semantic"
  /\ cmb' = IF cmb.k < Len(cmb.semantic_results)
            THEN [cmb EXCEPT !.combined_dict =
                               AddSemantic(@, cmb.semantic_results[cmb.k + 1],
                                           cmb.semantic_weight),
                             !.k = @ + 1]
            ELSE [cmb EXCEPT !.pc = "vector", !.k = 0]
  /\ UNCHANGED <<docs, chunkRows, job, faults, ck, opt, srch, del>>

\* lines 370-382
combine_add_vector ==
  /\ cmb.pc = "vector"
  /\ cmb' = IF cmb.k < Len(cmb.vector_results)
            THEN [cmb EXCEPT !.combined_dict =
                               AddVector(@, cmb.vector_results[cmb.k + 1],
                                         cmb.vector_weight),
                             !.k = @ + 1]
            ELSE [cmb EXCEPT !.pc = "sort"]
  /\ UNCHANGED <<docs, chunkRows, job, faults, ck, opt, srch, del>>

\* lines 385-391
combine_sort_return ==
  /\ cmb.pc = "sort"
  /\ cmb' = [cmb EXCEPT !.out = TopResults(SortByCombinedScore(cmb.combined_dict),
                                           cmb.limit),
                        !.pc = "done"]
  /\ UNCHANGED <<docs, chunkRows, job, faults, ck, opt, srch, del>>

NextCombine ==
  \/ combine_add_semantic
  \/ combine_add_vector
  \/ combine_sort_return

SpecCombine == InitCombine /\ [][NextCombine]_vars

(***************************************************************************)
(* Search requests (endpoints/search.py, search_service.py:29-239, 393-422)*)
(***************************************************************************)
\* The store seen by a search: two documents, one per domain; chunks 1 and 2
\* belong to document 1 and chunk 3 to document 2.  Each document has a
\* status, and a chunk's content contains the query text or not.
SearchDocs == {1, 2}
DocStatuses == {"completed", "processing", "failed"}
DocOf(c) == IF c = 3 THEN 2 ELSE 1
DomainOf(d) == d

\* domain_id of a request: 0 stands for None
DomainArgs == {0, 1, 2}

\* Default weights of hybrid_search (176-177), in thousandths
DefaultWeights == <<700, 300>>

\* similarity_score=0.8 (line 78), in tenths
PlaceholderScore == 8

Abs(x) == IF x < 0 THEN -x ELSE x

\* endpoints/search.py:83  abs(semantic_weight + vector_weight - 1.0) > 0.01
WeightTolerance == 10
WeightsRejected(semantic_weight, vector_weight) ==
  Abs(semantic_weight + vector_weight - 1000) > WeightTolerance

\* Sequences of n distinct elements of S
Arrangements(S, n) ==
  {q \in [1..n -> S] : \A a, b \in 1..n : a # b => q[a] # q[b]}

\* (mutant) the domain restriction is applied to the rows the limit kept
SemanticQueryRowsFilterLast(matches, domain_id, limit) ==
  LET kept == Arrangements(matches, Min(limit, Cardinality(matches)))
  IN  {SelectSeq(q, LAMBDA c : domain_id = 0 \/ DomainOf(DocOf(c)) = domain_id) :
         q \in kept}

\* The statement built at lines 45-61 and executed at 64-65: chunks joined to
\* their document and restricted to the domain when one is given (52-53),
\* restricted to the contents that contain the query (56-58), then LIMIT (61).
\* No ORDER BY: the store returns any limit of the rows, in any order.
SemanticQueryRows(matches, domain_id, limit) ==
  LET rows == {c \in matches : domain_id = 0 \/ DomainOf(DocOf(c)) = domain_id}
  IN  Arrangements(rows, Min(limit, Cardinality(rows)))

\* lines 68-80
ToSearchResults(rows) ==
  [i \in 1..Len(rows) |-> [chunk_id |-> rows[i], similarity_score |-> PlaceholderScore]]

\* (mutant) _log_search lets its failure out
LogSearchRaisesThrough(ok) == ~ok

\* _log_search (393-422): whether the call raises, given whether the write of
\* the log row succeeded.  The except clause at 420-422 does not re-raise.
LogSearchRaises(ok) == FALSE

\* The request leaves the service with a response or an exception; the
\* endpoints turn an exception into HTTP 500 (41-43, 66-68, 102-104).
Returned(r, results) ==
  [r EXCEPT !.pc = "end", !.outcome = "returned", !.results = results]

Raised(r, error) ==
  [r EXCEPT !.pc = "end", !.error = error,
            !.outcome = IF r.via = "endpoint" THEN "http_500" ELSE "raised"]

InitSearch ==
  /\ IngestAndTextIdle
  /\ cmb = CmbIdle
  /\ del = DelIdle
  /\ \E kind \in {"semantic", "vector", "hybrid"}, via \in {"endpoint", "service"},
        dom \in DomainArgs, lim \in Limits,
        st \in [SearchDocs -> DocStatuses], m \in SUBSET ChunkIds :
       \E w \in (IF kind = "hybrid" THEN WeightPairs ELSE {DefaultWeights}) :
         srch = [SrchIdle EXCEPT
                   !.pc = "request", !.kind = kind, !.via = via,
                   !.domain_id = dom, !.limit = lim,
                   !.semantic_weight = w[1], !.vector_weight = w[2],
                   !.status = st, !.matches = m]

SearchUnchanged == UNCHANGED <<docs, chunkRows, job, faults, ck, opt, cmb, del>>

\* endpoints/search.py:71-104, the validation of the weights (82-87)
hybrid_search_endpoint ==
  /\ srch.pc = "request" /\ srch.via = "endpoint" /\ srch.kind = "hybrid"
  /\ srch' = IF WeightsRejected(srch.semantic_weight, srch.vector_weight)
             THEN [srch EXCEPT !.pc = "end", !.outcome = "http_400"]
             ELSE [srch EXCEPT !.pc = "sem_query"]
  /\ SearchUnchanged

\* The other ways into the service: the semantic and vector endpoints
\* (21-68) and a direct call of a SearchService method.
search_service_call ==
  /\ srch.pc = "request" /\ ~(srch.via = "endpoint" /\ srch.kind = "hybrid")
  /\ srch' = [srch EXCEPT !.pc = IF srch.kind = "vector" THEN "vec" ELSE "sem_query"]
  /\ SearchUnchanged

\* semantic_search, lines 44-80: the query runs or raises
semantic_search_query ==
  /\ srch.pc = "sem_query"
  /\ \/ \E rows \in SemanticQueryRows(srch.matches, srch.domain_id, srch.limit) :
          srch' = [srch EXCEPT !.pc = "sem_log", !.semantic = ToSearchResults(rows),
                               !.queries = @ + 1, !.queryOk = TRUE]
     \/ srch' = [srch EXCEPT !.pc = "sem_except", !.error = "search",
                             !.queries = @ + 1]
  /\ SearchUnchanged

\* semantic_search, lines 82-100: log, then return the response
semantic_search_log ==
  /\ srch.pc = "sem_log"
  /\ \E ok \in BOOLEAN :
       LET r == [srch EXCEPT !.logFailed = @ \/ ~ok]
       IN  srch' = IF LogSearchRaises(ok)
                   THEN [r EXCEPT !.pc = "sem_except", !.error = "log"]
                   ELSE IF srch.kind = "semantic" THEN Returned(r, srch.semantic)
                   ELSE [r EXCEPT !.pc = "vec"]
  /\ SearchUnchanged

\* semantic_search, lines 102-116: log the failure, then re-raise
semantic_search_except ==
  /\ srch.pc = "sem_except"
  /\ \E ok \in BOOLEAN :
       LET r     == [srch EXCEPT !.logFailed = @ \/ ~ok]
           error == IF LogSearchRaises(ok) THEN "log" ELSE srch.error
       IN  srch' = IF srch.kind = "semantic" THEN Raised(r, error)
                   ELSE [r EXCEPT !.pc = "hyb_except", !.error = error]
  /\ SearchUnchanged

\* vector_search, lines 126-153: no query, an empty result list, one log
vector_search ==
  /\ srch.pc = "vec"
  /\ \E ok \in BOOLEAN :
       LET r == [srch EXCEPT !.logFailed = @ \/ ~ok, !.vector = <<>>]
       IN  srch' = IF LogSearchRaises(ok)
                   THEN (IF srch.kind = "vector" THEN Raised(r, "log")
                         ELSE [r EXCEPT !.pc = "hyb_except", !.error = "log"])
                   ELSE IF srch.kind = "vector" THEN Returned(r, <<>>)
                   ELSE [r EXCEPT !.pc = "combine"]
  /\ SearchUnchanged

\* hybrid_search, lines 196-223: fuse, log, return
hybrid_search_combine ==
  /\ srch.pc = "combine"
  /\ \E ok \in BOOLEAN :
       LET r == [srch EXCEPT !.logFailed = @ \/ ~ok]
       IN  srch' = IF LogSearchRaises(ok)
                   THEN [r EXCEPT !.pc = "hyb_except", !.error = "log"]
                   ELSE Returned(r, combine_search_results(
                                      srch.semantic, srch.vector,
                                      srch.semantic_weight, srch.vector_weight,
                                      srch.limit))
  /\ SearchUnchanged

\* hybrid_search, lines 225-239: log the failure, then re-raise
hybrid_search_except ==
  /\ srch.pc = "hyb_except"
  /\ \E ok \in BOOLEAN :
       srch' = Raised([srch EXCEPT !.logFailed = @ \/ ~ok],
                      IF LogSearchRaises(ok) THEN "log" ELSE srch.error)
  /\ SearchUnchanged

NextSearch ==
  \/ hybrid_search_endpoint
  \/ search_service_call
  \/ semantic_search_query
  \/ semantic_search_log
  \/ semantic_search_except
  \/ vector_search
  \/ hybrid_search_combine
  \/ hybrid_search_except

SpecSearch == InitSearch /\ [][NextSearch]_vars

(***************************************************************************)
(* DocumentService.delete_document (document_service.py:192-214)           *)
(***************************************************************************)
\* The chunk rows chunk_document has written for document row d when it ran
\* with chunk_size 2 and stopped after n rows.
RowsWritten(d, row, n) ==
  LET chunks == create_document_chunks(extract_text_from_document(row),
                                       2, CHUNK_OVERLAP).chunks
  IN  SubSeq([i \in 1..Len(chunks) |->
                [doc |-> d, chunk_index |-> i - 1, content |-> chunks[i],
                 embedding |-> FALSE, by |-> 1]],
             1, Min(n, Len(chunks)))

\* os.path.exists(document.file_path)
OnDisk(row) == IF row.exists /\ row.file # "missing" THEN "present" ELSE "absent"

\* The store as the operations above leave it: no document or one document
\* in any status, with none, some or all of its chunk rows.
InitDelete ==
  /\ job = [j \in Jobs |-> IdleJob]
  /\ faults = 0
  /\ ck = CkIdle
  /\ opt = OptIdle
  /\ cmb = CmbIdle
  /\ srch = SrchIdle
  /\ \E d \in Docs :
       \E row \in {NoDoc} \cup
                  {[exists |-> TRUE, status |-> st, file_type |-> up.file_type,
                    file |-> up.file, text |-> up.text] :
                     st \in StatusInputs,
                     up \in {u \in Uploads : u.file_type \in ALLOWED_EXTENSIONS}} :
         \E n \in 0..2 :
           /\ docs = [x \in Docs |-> IF x = d THEN row ELSE NoDoc]
           /\ chunkRows = IF row.exists THEN RowsWritten(d, row, n) ELSE <<>>
           /\ del = [pc |-> "get", doc |-> d, disk |-> OnDisk(row),
                     outcome |-> "none",
                     startRows |-> IF row.exists THEN RowsWritten(d, row, n) ELSE <<>>,
                     startDisk |-> OnDisk(row)]

DeleteUnchanged == UNCHANGED <<job, ck, opt, cmb, srch>>

\* lines 194-196: get_document, return False when it is not found
delete_document_get ==
  /\ del.pc = "get"
  /\ del' = IF docs[del.doc].exists THEN [del EXCEPT !.pc = "file"]
            ELSE [del EXCEPT !.pc = "end", !.outcome = "false"]
  /\ UNCHANGED <<docs, chunkRows, faults>>
  /\ DeleteUnchanged

\* lines 199-202: remove the file when it exists; os.remove can raise, which
\* leads to the except block (210-213)
delete_document_remove_file ==
  /\ del.pc = "file"
  /\ \E ok \in BOOLEAN :
       del' = IF del.disk = "absent" THEN [del EXCEPT !.pc = "commit"]
              ELSE IF ok THEN [del EXCEPT !.pc = "commit", !.disk = "absent"]
              ELSE [del EXCEPT !.pc = "end", !.outcome = "raised"]
  /\ UNCHANGED <<docs, chunkRows, faults>>
  /\ DeleteUnchanged

\* lines 204-208: delete the row (its chunks go with it, models/document.py:31)
\* and commit; a refused commit is rolled back and re-raised (210-213)
delete_document_commit ==
  /\ del.pc = "commit"
  /\ \E ok \in StoreOutcomes :
       /\ docs' = IF ok THEN [docs EXCEPT ![del.doc] = NoDoc] ELSE docs
       /\ chunkRows' = IF ok THEN SelectSeq(chunkRows, LAMBDA r : r.doc # del.doc)
                       ELSE chunkRows
       /\ del' = [del EXCEPT !.pc = "end",
                             !.outcome = IF ok THEN "true" ELSE "raised"]
       /\ faults' = Charge(ok)
  /\ DeleteUnchanged

NextDelete ==
  \/ delete_document_get
  \/ delete_document_remove_file
  \/ delete_document_commit

SpecDelete == InitDelete /\ [][NextDelete]_vars

(***************************************************************************)
(* Properties                                                              *)
(***************************************************************************)

\* C1: when optimize_context has returned, the total content length of the
\* returned results (truncated item and its marker included) is at most the
\* budget max_context_length.
C1_BudgetRespected ==
  opt.pc = "done" => SumLen(opt.out) <= opt.max

\* C2: with 0 <= overlap < chunk_size, every iteration of the chunker's loop
\* moves the start position strictly forward.
C2_StartMovesForward ==
  [][(ck.pc = "loop" /\ ck.overlap < ck.size /\ ck'.steps = ck.steps + 1)
       => ck'.start > ck.start]_vars

\* C3: a document's status starts at pending and changes only by
\* pending -> processing, processing -> completed, processing -> failed.
StateMachine ==
  {<<"pending", "processing">>, <<"processing", "completed">>,
   <<"processing", "failed">>}

C3_StatusStateMachine ==
  [][\A d \in Docs :
       /\ (~docs[d].exists /\ docs'[d].exists) => docs'[d].status = "pending"
       /\ (docs[d].exists /\ docs'[d].status # docs[d].status)
            => <<docs[d].status, docs'[d].status>> \in StateMachine]_vars

\* C4: at most one process_document execution per document is active (has set
\* the status to processing and has not yet reached completed or failed).
Active(j) ==
  /\ job[j].kind = "process"
  /\ job[j].marked
  /\ job[j].pc \in {"extract", "fail_empty", "save", "handler", "hung"}

C4_OneActiveJob ==
  \A d \in Docs : Cardinality({j \in Jobs : Active(j) /\ job[j].doc = d}) <= 1

\* C5: the chunk_index values of a completed document's chunks are exactly
\* 0..N-1, each once.
Contiguous(rows) ==
  \A i \in 0..(Len(rows) - 1) :
    Cardinality({k \in 1..Len(rows) : rows[k].chunk_index = i}) = 1

ExpectedRows(j, d, chunks) ==
  [i \in 1..Len(chunks) |->
     [doc |-> d, chunk_index |-> i - 1, content |-> chunks[i],
      embedding |-> FALSE, by |-> j]]

C7_ProcessCompletes ==
  [][\A j \in Jobs :
       (/\ job[j].kind = "process"
        /\ Running(job[j]) /\ Finished(job'[j])
        /\ job'[j].extracted = "text" /\ job'[j].fault = "none" /\ job'[j].solo)
       => /\ docs'[job[j].doc].status = "completed"
          /\ RowsOf(job[j].doc)' =
               job[j].startRows \o
               ExpectedRows(j, job[j].doc,
                 create_document_chunks(
                   extract_text_from_document(docs[job[j].doc]),
                   CHUNK_SIZE, 0).chunks)]_vars

\* C9: a process_document execution whose extraction yielded nothing writes
\* no chunk and never enters the saving loop, and the step that ends it
\* leaves the status failed unless that very step's commit was refused.
C9_NothingExtractedFails ==
  [][\A j \in Jobs :
       (job'[j].kind = "process" /\ job'[j].extracted = "nothing")
       => /\ job'[j].written = 0
          /\ job'[j].pc \in {"fail_empty", "handler", "done", "raised"}
          /\ (Running(job[j]) /\ Finished(job'[j]) /\ faults' = faults)
               => docs'[job'[j].doc].status = "failed"]_vars

C9_Witness ==
  \E j \in Jobs :
    /\ job[j].kind = "process" /\ job[j].pc = "done"
    /\ job[j].marked /\ job[j].extracted = "nothing"
    /\ docs[job[j].doc].status = "failed"
    /\ job[j].written = 0 /\ RowsOf(job[j].doc) = <<>>

\* C10: every chunk of a completed document has an embedding.
C10_CompletedIsEmbedded ==
  \A d \in Docs :
    docs[d].status = "completed"
      => \A k \in 1..Len(chunkRows) :
           chunkRows[k].doc = d => chunkRows[k].embedding

C11_InvalidWeightsRejected ==
  srch.kind = "hybrid" =>
    IF WeightsRejected(srch.semantic_weight, srch.vector_weight)
    THEN /\ srch.queries = 0
         /\ srch.results = <<>>
         /\ srch.pc = "end" => (srch.outcome = "http_400" \/ srch.error = "validation")
    ELSE srch.outcome # "http_400"

\* C12: _combine_search_results returns one entry per distinct chunk id,
\* ordered by non-increasing fused score (score * weight of each list, 0 for
\* a list the chunk is absent from), cut to the first limit entries.
InList(list, id) == \E i \in 1..Len(list) : list[i].chunk_id = id

ScoreIn(list, id) ==
  IF InList(list, id)
  THEN list[CHOOSE i \in 1..Len(list) : list[i].chunk_id = id].similarity_score
  ELSE 0

Fused(id) ==
  ScoreIn(cmb.semantic_results, id) * cmb.semantic_weight
    + ScoreIn(cmb.vector_results, id) * cmb.vector_weight

FoundIds ==
  {id \in ChunkIds : InList(cmb.semantic_results, id) \/ InList(cmb.vector_results, id)}

C12_FusedRanking ==
  cmb.pc = "done" =>
    LET n == Len(cmb.out)
    IN  /\ n = Min(cmb.limit, Cardinality(FoundIds))
        /\ \A a \in 1..n : cmb.out[a].chunk_id \in FoundIds
        /\ \A a, b \in 1..n : a # b => cmb.out[a].chunk_id # cmb.out[b].chunk_id
        /\ \A a, b \in 1..n :
             a < b => Fused(cmb.out[a].chunk_id) >= Fused(cmb.out[b].chunk_id)
        /\ \A id \in FoundIds :
             ~InList(cmb.out, id)
               => \A a \in 1..n : Fused(cmb.out[a].chunk_id) >= Fused(id)

C12_Witness ==
  /\ cmb.pc = "done"
  /\ \E id \in ChunkIds :
       InList(cmb.semantic_results, id) /\ InList(cmb.vector_results, id)
  /\ \E id \in ChunkIds :
       ~InList(cmb.semantic_results, id) /\ InList(cmb.vector_results, id)
  /\ Len(cmb.out) = 2 /\ Cardinality(FoundIds) = 3
  /\ Fused(cmb.out[1].chunk_id) > Fused(cmb.out[2].chunk_id)
  /\ InList(cmb.vector_results, cmb.out[1].chunk_id)

\* C13: with scores in [0,1] and weights the validation accepts, the fused
\* score of a chunk found by both searches lies between
\* min(weights) * min(scores) and max(scores), and the fused score of a chunk
\* found by one search is that search's score * weight.
C13_FusionBounds ==
  (cmb.pc = "done" /\ ~WeightsRejected(cmb.semantic_weight, cmb.vector_weight)) =>
    \A i \in 1..Len(cmb.combined_dict) :
      LET e == cmb.combined_dict[i]
          l == ScoreIn(cmb.semantic_results, e.key)
          v == ScoreIn(cmb.vector_results, e.key)
      IN  IF InList(cmb.semantic_results, e.key) /\ InList(cmb.vector_results, e.key)
          THEN /\ Min(cmb.semantic_weight, cmb.vector_weight) * Min(l, v)
                    <= e.combined_score
               /\ e.combined_score <= Max(l, v) * 1000
          ELSE IF InList(cmb.semantic_results, e.key)
          THEN e.combined_score = l * cmb.semantic_weight
          ELSE e.combined_score = v * cmb.vector_weight

\* C14: two chunks of equal fused score appear in ascending chunk id order
\* in the fused list.
C14_TieBreakById ==
  cmb.pc = "done" =>
    \A a, b \in 1..Len(cmb.out) :
      (a < b /\ Fused(cmb.out[a].chunk_id) = Fused(cmb.out[b].chunk_id))
        => cmb.out[a].chunk_id < cmb.out[b].chunk_id

\* C15: every chunk a search returns belongs to a document whose status is
\* completed.
C15_OnlyCompletedVisible ==
  srch.outcome = "returned" =>
    \A i \in 1..Len(srch.results) :
      srch.status[DocOf(srch.results[i].chunk_id)] = "completed"

\* C16: a search given a domain returns chunks of that domain only, and as
\* many of them as the limit allows: chunks of other domains take no part of
\* the limit.
InDomain(c, domain_id) == DomainOf(DocOf(c)) = domain_id

C16_DomainBeforeLimit ==
  (srch.outcome = "returned" /\ srch.domain_id # 0) =>
    /\ \A i \in 1..Len(srch.results) :
         InDomain(srch.results[i].chunk_id, srch.domain_id)
    /\ srch.kind \in {"semantic", "hybrid"} =>
         Len(srch.results) =
           Min(srch.limit,
               Cardinality({c \in srch.matches : InDomain(c, srch.domain_id)}))

C16_Witness ==
  /\ srch.outcome = "returned" /\ srch.kind = "hybrid"
  /\ srch.domain_id = 2 /\ srch.limit = 1
  /\ srch.matches = ChunkIds
  /\ Len(srch.results) = 1 /\ srch.results[1].chunk_id = 3

\* C17: a failure of _log_search never reaches the caller: a search whose
\* query succeeded returns its results, and a search that failed ends with
\* its own error.
C17_LogFailureHidden ==
  (srch.pc = "end" /\ srch.outcome # "http_400") =>
    IF srch.kind = "vector" \/ srch.queryOk
    THEN /\ srch.outcome = "returned"
         /\ srch.kind = "semantic" => srch.results = srch.semantic
         /\ srch.kind = "hybrid" => Len(srch.results) = Len(srch.semantic)
    ELSE /\ srch.outcome \in {"raised", "http_500"}
         /\ srch.error = "search"

C17_Witness ==
  /\ srch.pc = "end" /\ srch.logFailed
  /\ srch.outcome = "returned" /\ srch.kind = "semantic"
  /\ Len(srch.results) = 2

\* C18: chunking with overlap >= chunk_size is rejected before any chunk is
\* produced.
C18_OverlapRejected ==
  ck.overlap >= ck.size => (ck.steps = 0 /\ ck.chunks = <<>>)

\* C19: with 0 <= overlap < chunk_size, the chunks returned cover the text:
\* every non-whitespace character lies in the window of a returned chunk,
\* every chunk is the trimmed content of its window, and the chunks come in
\* the order of their windows.
C19_ChunksCoverText ==
  (ck.pc = "done" /\ ck.overlap < ck.size) =>
    /\ Len(ck.windows) = Len(ck.chunks)
    /\ \A p \in 0..(Len(ck.text) - 1) :
         ~IsSpace(ck.text[p + 1])
           => \E i \in 1..Len(ck.windows) :
                ck.windows[i][1] <= p /\ p < ck.windows[i][2]
    /\ \A i \in 1..Len(ck.windows) :
         ck.chunks[i] = Strip(Slice(ck.text, ck.windows[i][1], ck.windows[i][2]))
    /\ \A i \in 1..(Len(ck.windows) - 1) :
         /\ ck.windows[i][1] < ck.windows[i + 1][1]
         /\ ck.windows[i][2] <= ck.windows[i + 1][2]

C19_Witness ==
  /\ ck.pc = "done" /\ ck.overlap = 1 /\ ck.size = 3
  /\ Len(ck.text) = MaxTextLen
  /\ Len(ck.chunks) >= 2
  /\ \E p \in 1..Len(ck.text) : IsSpace(ck.text[p])
  /\ \E i \in 1..(Len(ck.windows) - 1) : ck.windows[i + 1][1] < ck.windows[i][2]

\* C20: with 0 <= overlap < chunk_size, every chunk has at most chunk_size
\* characters, cut at a word boundary or not.
C20_ChunkWithinSize ==
  ck.overlap < ck.size =>
    \A i \in 1..Len(ck.chunks) : Len(ck.chunks[i]) <= ck.size

C20_Witness ==
  /\ ck.pc = "done" /\ ck.overlap < ck.size
  /\ \E i \in 1..Len(ck.chunks) :
       /\ Len(ck.chunks[i]) = ck.size
       /\ ck.windows[i][2] - ck.windows[i][1] = ck.size
  /\ \E i \in 1..Len(ck.chunks) :
       /\ ck.windows[i][2] - ck.windows[i][1] < ck.size
       /\ ck.windows[i][2] < Len(ck.text)

\* C21: with 0 <= overlap < chunk_size, a non-blank text shorter than
\* chunk_size comes back as exactly one chunk, the trimmed text, and the
\* empty text comes back as the empty list.
C21_ShortTextOneChunk ==
  (ck.pc = "done" /\ ck.overlap < ck.size) =>
    /\ ck.text = <<>> => ck.chunks = <<>>
    /\ (Len(ck.text) < ck.size /\ Strip(ck.text) # <<>>)
         => ck.chunks = <<Strip(ck.text)>>

\* C22: the status of every document is one of pending, processing,
\* completed, failed, and only a step of an ingestion task changes it.
PipelineStatuses == {"pending", "processing", "completed", "failed"}

C22_StatusOnlyByPipeline ==
  [][\A d \in Docs :
       docs'[d].exists =>
         /\ docs'[d].status \in PipelineStatuses
         /\ (docs[d].exists /\ docs'[d].status # docs[d].status) => job' # job]_vars

\* C24: a process_document execution declares its document failed after a
\* transient failure (a refused commit) only once the configured number of
\* retries is used up; after a failure that is not transient (nothing
\* extracted) it declares it failed at once, without a retry.
max_retries == 3

C26_NeverLeftProcessing ==
  [][\A j \in Jobs :
       (/\ job[j].kind = "process"
        /\ Running(job[j]) /\ Finished(job'[j])
        /\ job'[j].marked)
       => docs'[job[j].doc].status \in {"completed", "failed"}]_vars

\* C27: no chunk_index is persisted twice for a document.
C27_NoIndexTwice ==
  \A d \in Docs :
    \A a, b \in 1..Len(RowsOf(d)) :
      a # b => RowsOf(d)[a].chunk_index # RowsOf(d)[b].chunk_index

\* C28: the values chunk_document passes to the chunker satisfy
\* overlap < chunk_size, and an overlap of 0 given by the caller is passed
\* as 0.
C28_EffectiveArguments ==
  \A j \in Jobs :
    job[j].kind = "chunk" =>
      /\ job[j].overlap < job[j].size
      /\ job[j].given[2] = <<0>> => job[j].overlap = 0

\* C29: the fused list is in non-increasing order of the similarity_score
\* its results carry, that score is the fused score, and it lies in [0,1].
C29_CarriedScoreIsFused ==
  cmb.pc = "done" =>
    /\ \A a, b \in 1..Len(cmb.out) :
         a < b => cmb.out[a].similarity_score >= cmb.out[b].similarity_score
    /\ \A a \in 1..Len(cmb.out) :
         /\ cmb.out[a].similarity_score * 1000 = Fused(cmb.out[a].chunk_id)
         /\ cmb.out[a].similarity_score \in 0..10

\* C25: optimize_context returns the longest prefix of the input, stably
\* sorted by descending similarity_score, whose items fit whole in the budget,
\* followed by a truncated copy of the next item exactly when that item does
\* not fit and more than 100 characters of budget remain; nothing ranked
\* after the first item that does not fit is included.
Rank(context, i) ==
  Cardinality({j \in 1..Len(context) :
                 \/ context[j].score > context[i].score
                 \/ (context[j].score = context[i].score /\ j < i)})

Ranked(context) ==
  [p \in 1..Len(context) |->
     context[CHOOSE i \in 1..Len(context) : Rank(context, i) = p - 1]]

FitWhole(ranked, max) ==
  CHOOSE k \in 0..Len(ranked) :
    /\ SumLen(SubSeq(ranked, 1, k)) <= max
    /\ k < Len(ranked) => SumLen(SubSeq(ranked, 1, k + 1)) > max

C25_GreedyPrefix ==
  opt.pc = "done" =>
    LET ranked == Ranked(opt.context)
        k      == FitWhole(ranked, opt.max)
        left   == opt.max - SumLen(SubSeq(ranked, 1, k))
    IN  IF k < Len(ranked) /\ left > 100
        THEN /\ Len(opt.out) = k + 1
             /\ SubSeq(opt.out, 1, k) = SubSeq(ranked, 1, k)
             /\ opt.out[k + 1].id = ranked[k + 1].id
             /\ opt.out[k + 1].score = ranked[k + 1].score
             /\ opt.out[k + 1].content =
                  [src |-> ranked[k + 1].content.src, n |-> left, ell |-> TRUE]
        ELSE opt.out = SubSeq(ranked, 1, k)

C25_Witness ==
  /\ opt.pc = "done"
  /\ Len(opt.context) = 3 /\ Len(opt.out) = 2
  /\ opt.context[1].score = opt.context[2].score
  /\ opt.context[3].score > opt.context[1].score
  /\ opt.context[1].content.n # opt.context[2].content.n
  /\ ~opt.out[1].content.ell /\ opt.out[2].content.ell
  /\ opt.out[2].id = 1

\* C23: a document left in processing by a worker that died does not stay in
\* processing forever.
C23_StuckReclaimed ==
  \A d \in Docs :
    (/\ docs[d].status = "processing"
     /\ \E j \in Jobs : job[j].pc = "crashed" /\ job[j].doc = d /\ job[j].marked)
      ~> (docs[d].status # "processing")

\* C30: delete_document is all-or-nothing: when it raises, the row, the
\* chunks and the file are as they were; when it returns True the row, its
\* chunks and its file are gone; when it returns False nothing changed.
C30_DeleteAllOrNothing ==
  del.pc = "end" =>
    IF del.outcome = "true"
    THEN /\ ~docs[del.doc].exists
         /\ RowsOf(del.doc) = <<>>
         /\ del.disk = "absent"
    ELSE /\ docs[del.doc].exists = (del.outcome = "raised")
         /\ RowsOf(del.doc) = del.startRows
         /\ del.disk = del.startDisk

====
